---- MODULE Spec2Model ----
(***************************************************************************)
(* State-machine model of the wirekvs client library (src/src/lib.rs) and  *)
(* of the way src/src/main.rs drives it: Database Handles                  *)
(* (WireKVSDatabase), their websocket connection, their broadcast channel  *)
(* (the Fan-out Hub), the Subscriptions obtained from subscribe(), and the *)
(* REST passthroughs.                                                      *)
(*                                                                         *)
(* The remote service is the environment: it accepts or refuses the        *)
(* handshake, pushes frames on an open connection and may close it.        *)
(***************************************************************************)
EXTENDS Naturals, Sequences, FiniteSets

\* ------------------------------------------------------------------ bounds

\* Frames the remote side pushes in total, over all connections.
MaxFrames == 2

\* Frames the remote side pushes in the burst scenario (more than Capacity).
BurstFrames == 101

\* ------------------------------------------------------- program constants

\* broadcast::channel(100)
Capacity == 100

\* ---------------------------------------------------------------- universe

\* Two handles, possibly for the same database id, and two consumers.
Handles == {"H1", "H2"}
Subs == {"A", "B"}

\* A frame is either a well-formed JSON document or not decodable.
FrameKinds == {"good", "bad"}

NoHandle == "none"

VARIABLES
    hstate,        \* per handle: position of its construction / lifetime
    is_connected,  \* per handle: the field is_connected
    ws,            \* per handle: the field ws ("None" / "Some" / "Dropped")
    tx,            \* per handle: the broadcast Sender ("none"/"live"/"dropped")
    attempts,      \* per handle: number of connect_async calls made for it
    conn,          \* per handle: the connection as the remote side sees it
    wire,          \* per handle: frames the remote pushed on the connection
    hub,           \* per handle: events sent on tx, in send order
    shandle,       \* per subscription: the handle it came from, or NoHandle
    spc,           \* per subscription: "idle" / "waiting" / "dropped"
    next,          \* per subscription: position of the next event to read
    sres,          \* per subscription: result of its last completed recv
    received,      \* per subscription: the events its recv calls returned
    attachPos,     \* per subscription: frames on the wire when it attached
    resp           \* result of the last REST call ("none"/"Ok"/"Err")

vars == <<hstate, is_connected, ws, tx, attempts, conn, wire, hub,
          shandle, spc, next, sres, received, attachPos, resp>>

handleVars == <<hstate, is_connected, ws, tx, attempts>>
remoteVars == <<conn, wire>>
subVars == <<shandle, spc, next, sres, received, attachPos>>

\* What the event path of one handle consists of (identity is immutable and
\* is the handle's name).
eventPath == <<hstate, is_connected, ws, tx, attempts, conn, wire, hub,
               shandle, spc, next, sres, received, attachPos>>

Init ==
    /\ hstate = [h \in Handles |-> "none"]
    /\ is_connected = [h \in Handles |-> FALSE]
    /\ ws = [h \in Handles |-> "None"]
    /\ tx = [h \in Handles |-> "none"]
    /\ attempts = [h \in Handles |-> 0]
    /\ conn = [h \in Handles |-> "idle"]
    /\ wire = [h \in Handles |-> <<>>]
    /\ hub = [h \in Handles |-> <<>>]
    /\ shandle = [s \in Subs |-> NoHandle]
    /\ spc = [s \in Subs |-> "idle"]
    /\ next = [s \in Subs |-> 0]
    /\ sres = [s \in Subs |-> <<"none">>]
    /\ received = [s \in Subs |-> <<>>]
    /\ attachPos = [s \in Subs |-> 0]
    /\ resp = "none"

\* ------------------------------------------------------------ construction

\* WireKVSDatabase::new up to the await of connect_async: the channel is
\* created, the struct is built with ws = None and is_connected = false,
\* and setup_websocket starts the handshake.
NewStart(h) ==
    /\ hstate[h] = "none"
    /\ hstate' = [hstate EXCEPT ![h] = "connecting"]
    /\ tx' = [tx EXCEPT ![h] = "live"]
    /\ ws' = [ws EXCEPT ![h] = "None"]
    /\ is_connected' = [is_connected EXCEPT ![h] = FALSE]
    /\ attempts' = [attempts EXCEPT ![h] = attempts[h] + 1]
    /\ conn' = [conn EXCEPT ![h] = "handshaking"]
    /\ UNCHANGED <<wire, hub, subVars, resp>>

\* connect_async returned Ok: ws = Some(stream), is_connected = true, and
\* new returns the handle to its caller.
ConnectOk(h) ==
    /\ hstate[h] = "connecting"
    /\ conn[h] = "handshaking"
    /\ conn' = [conn EXCEPT ![h] = "open"]
    /\ ws' = [ws EXCEPT ![h] = "Some"]
    /\ is_connected' = [is_connected EXCEPT ![h] = TRUE]
    /\ hstate' = [hstate EXCEPT ![h] = "ready"]
    /\ UNCHANGED <<tx, attempts, wire, hub, subVars, resp>>

\* Variant of ConnectFail: the error is swallowed and the half-built handle
\* is returned to the caller.
ConnectFail_ReturnsHandle(h) ==
    /\ hstate[h] = "connecting"
    /\ conn[h] = "handshaking"
    /\ conn' = [conn EXCEPT ![h] = "refused"]
    /\ hstate' = [hstate EXCEPT ![h] = "ready"]
    /\ UNCHANGED <<tx, is_connected, ws, attempts, wire, hub, subVars, resp>>

\* connect_async returned Err: expect("Failed to connect") panics. The
\* half-built struct is unwound (its Sender is dropped) and nothing is
\* returned to the caller.
ConnectFail(h) ==
    /\ hstate[h] = "connecting"
    /\ conn[h] = "handshaking"
    /\ conn' = [conn EXCEPT ![h] = "refused"]
    /\ hstate' = [hstate EXCEPT ![h] = "panicked"]
    /\ tx' = [tx EXCEPT ![h] = "dropped"]
    /\ UNCHANGED <<is_connected, ws, attempts, wire, hub, subVars, resp>>

\* What the caller of new / WireKVS::database got.
NewOutcome(h) ==
    CASE hstate[h] \in {"ready", "dropped"} -> "Handle"
      [] hstate[h] = "panicked" -> "Panic"
      [] OTHER -> "Pending"

\* The handle is in the hands of a caller.
Exposed(h) == hstate[h] = "ready"

\* ------------------------------------------------------------ remote side

RECURSIVE SumLen(_)
SumLen(S) ==
    IF S = {} THEN 0
    ELSE LET h == CHOOSE x \in S : TRUE
         IN Len(wire[h]) + SumLen(S \ {h})

\* Frames the remote side pushed so far, over all connections.
FramesSent == SumLen(Handles)

\* The remote side pushes a frame on an open connection. Nothing in the
\* library reads the stream held in ws, so the frame stays on the wire: no
\* field of the handle changes and nothing is sent on tx.
Arrive(h, f, bound) ==
    /\ conn[h] = "open"
    /\ FramesSent < bound
    /\ wire' = [wire EXCEPT ![h] = Append(wire[h], f)]
    /\ UNCHANGED <<handleVars, conn, hub, subVars, resp>>

FrameArrive(h, f) == Arrive(h, f, MaxFrames)

\* The remote side closes the connection. No code observes it:
\* is_connected is written only in setup_websocket.
RemoteClose(h) ==
    /\ conn[h] = "open"
    /\ conn' = [conn EXCEPT ![h] = "peerClosed"]
    /\ UNCHANGED <<handleVars, wire, hub, subVars, resp>>

\* ------------------------------------------------------------------ handle

\* Variant of DropHandle: a clone of the Sender outlives the handle, so the
\* channel stays open.
DropHandle_KeepsSender(h) ==
    /\ hstate[h] = "ready"
    /\ hstate' = [hstate EXCEPT ![h] = "dropped"]
    /\ ws' = [ws EXCEPT ![h] = "Dropped"]
    /\ conn' = [conn EXCEPT ![h] = "released"]
    /\ UNCHANGED <<tx, is_connected, attempts, wire, hub, subVars, resp>>

\* Variant of DropHandle: the channel is one process-wide object, closed
\* with the first handle that goes away.
DropHandle_SharedHub(h) ==
    /\ hstate[h] = "ready"
    /\ hstate' = [hstate EXCEPT ![h] = "dropped"]
    /\ ws' = [ws EXCEPT ![h] = "Dropped"]
    /\ tx' = [g \in Handles |-> "dropped"]
    /\ conn' = [conn EXCEPT ![h] = "released"]
    /\ UNCHANGED <<is_connected, attempts, wire, hub, subVars, resp>>

\* The handle goes out of scope: its fields are dropped. Dropping ws
\* releases the connection; dropping tx, the only Sender of the channel,
\* closes the channel.
DropHandle(h) ==
    /\ hstate[h] = "ready"
    /\ hstate' = [hstate EXCEPT ![h] = "dropped"]
    /\ ws' = [ws EXCEPT ![h] = "Dropped"]
    /\ tx' = [tx EXCEPT ![h] = "dropped"]
    /\ conn' = [conn EXCEPT ![h] = "released"]
    /\ UNCHANGED <<is_connected, attempts, wire, hub, subVars, resp>>

\* ----------------------------------------------------------- subscriptions

\* subscribe(): self.tx.subscribe(), a Receiver positioned at the tail.
Subscribe(s, h) ==
    /\ Exposed(h)
    /\ shandle[s] = NoHandle
    /\ shandle' = [shandle EXCEPT ![s] = h]
    /\ spc' = [spc EXCEPT ![s] = "idle"]
    /\ next' = [next EXCEPT ![s] = Len(hub[h])]
    /\ attachPos' = [attachPos EXCEPT ![s] = Len(wire[h])]
    /\ UNCHANGED <<handleVars, remoteVars, hub, sres, received, resp>>

\* What rx.recv() has to offer subscription s now.
RecvResult(s) ==
    LET h == shandle[s]
        tail == Len(hub[h])
    IN  IF next[s] + Capacity < tail
            THEN <<"Lagged", tail - Capacity - next[s]>>
        ELSE IF next[s] < tail
            THEN <<"Ok", hub[h][next[s] + 1]>>
        ELSE IF tx[h] = "dropped"
            THEN <<"Closed">>
        ELSE <<"Pending">>

\* The receive of s completes with result r.
Complete(s, r) ==
    /\ sres' = [sres EXCEPT ![s] = r]
    /\ spc' = [spc EXCEPT ![s] = "idle"]
    /\ next' = [next EXCEPT ![s] =
                   CASE r[1] = "Lagged" -> next[s] + r[2]
                     [] r[1] = "Ok" -> next[s] + 1
                     [] OTHER -> next[s]]
    /\ received' = [received EXCEPT ![s] =
                       IF r[1] = "Ok" THEN Append(received[s], r[2])
                       ELSE received[s]]

\* rx.recv().await is called: it returns at once when there is something
\* to return and suspends otherwise.
Recv(s) ==
    /\ shandle[s] # NoHandle
    /\ spc[s] = "idle"
    /\ IF RecvResult(s)[1] = "Pending"
           THEN /\ spc' = [spc EXCEPT ![s] = "waiting"]
                /\ UNCHANGED <<next, sres, received>>
           ELSE Complete(s, RecvResult(s))
    /\ UNCHANGED <<handleVars, remoteVars, hub, shandle, attachPos, resp>>

\* A suspended recv is woken once the channel has something for it.
Wake(s) ==
    /\ shandle[s] # NoHandle
    /\ spc[s] = "waiting"
    /\ RecvResult(s)[1] # "Pending"
    /\ Complete(s, RecvResult(s))
    /\ UNCHANGED <<handleVars, remoteVars, hub, shandle, attachPos, resp>>

\* Variant of DropSub: dropping one Receiver tears down every Receiver of
\* the same channel.
DropSub_DropsSiblings(s) ==
    /\ shandle[s] # NoHandle
    /\ spc[s] # "dropped"
    /\ spc' = [r \in Subs |->
                  IF shandle[r] = shandle[s] THEN "dropped" ELSE spc[r]]
    /\ UNCHANGED <<handleVars, remoteVars, hub, shandle, next, sres,
                   received, attachPos, resp>>

\* The consumer drops its Receiver.
DropSub(s) ==
    /\ shandle[s] # NoHandle
    /\ spc[s] # "dropped"
    /\ spc' = [spc EXCEPT ![s] = "dropped"]
    /\ UNCHANGED <<handleVars, remoteVars, hub, shandle, next, sres,
                   received, attachPos, resp>>

\* ------------------------------------------------------------ REST calls

\* Each call builds a reqwest client, sends one request with the access key
\* in the Authorization header and returns Ok (with the decoded body, or ())
\* or the reqwest error. All take &self and touch no field.
get_all_entries(h, ok) ==
    /\ Exposed(h)
    /\ resp' = IF ok THEN "Ok" ELSE "Err"
    /\ UNCHANGED eventPath

get(h, ok) ==
    /\ Exposed(h)
    /\ resp' = IF ok THEN "Ok" ELSE "Err"
    /\ UNCHANGED eventPath

\* Variant of set: a failed request marks the handle disconnected.
set_MarksDisconnected(h, ok) ==
    /\ Exposed(h)
    /\ resp' = IF ok THEN "Ok" ELSE "Err"
    /\ is_connected' = [is_connected EXCEPT ![h] = ok]
    /\ UNCHANGED <<hstate, ws, tx, attempts, conn, wire, hub, subVars>>


set(h, ok) ==
    /\ Exposed(h)
    /\ resp' = IF ok THEN "Ok" ELSE "Err"
    /\ UNCHANGED eventPath

delete(h, ok) ==
    /\ Exposed(h)
    /\ resp' = IF ok THEN "Ok" ELSE "Err"
    /\ UNCHANGED eventPath

\* --------------------------------------------------------- specifications

Next ==
    \/ \E h \in Handles : NewStart(h)
    \/ \E h \in Handles : ConnectOk(h)
    \/ \E h \in Handles : ConnectFail(h)
    \/ \E h \in Handles, f \in FrameKinds : FrameArrive(h, f)
    \/ \E h \in Handles : RemoteClose(h)
    \/ \E h \in Handles : DropHandle(h)
    \/ \E s \in Subs, h \in Handles : Subscribe(s, h)
    \/ \E s \in Subs : Recv(s)
    \/ \E s \in Subs : Wake(s)
    \/ \E s \in Subs : DropSub(s)
    \/ \E h \in Handles, ok \in BOOLEAN : get_all_entries(h, ok)
    \/ \E h \in Handles, ok \in BOOLEAN : get(h, ok)
    \/ \E h \in Handles, ok \in BOOLEAN : set(h, ok)
    \/ \E h \in Handles, ok \in BOOLEAN : delete(h, ok)

Spec == Init /\ [][Next]_vars

\* The runtime polls every spawned consumer task: a recv that can complete
\* does complete.
Fairness == \A s \in Subs : WF_vars(Wake(s)) /\ WF_vars(Recv(s))

FairSpec == Spec /\ Fairness

\* The burst scenario: one handle, one consumer, and the remote side pushing
\* more well-formed frames than the channel holds.
BurstNext ==
    \/ NewStart("H1")
    \/ ConnectOk("H1")
    \/ Arrive("H1", "good", BurstFrames)
    \/ Subscribe("A", "H1")
    \/ Recv("A")
    \/ Wake("A")
    \/ DropHandle("H1")

BurstSpec == Init /\ [][BurstNext]_vars /\ Fairness

\* ------------------------------------------------------------------ claims

Attached(s) == shandle[s] # NoHandle

\* The handle is alive and its connection is up.
Live(h) == hstate[h] = "ready" /\ conn[h] = "open"

\* The event decoded from the i-th frame of handle h's connection.
Event(h, i) == <<h, i>>

InSeq(x, q) == \E k \in 1..Len(q) : q[k] = x

\* The events of the well-formed frames i+1 .. Len(wire[h]), in arrival order.
RECURSIVE EventsAfter(_, _)
EventsAfter(h, i) ==
    IF i >= Len(wire[h]) THEN <<>>
    ELSE IF wire[h][i + 1] = "good"
        THEN <<Event(h, i + 1)>> \o EventsAfter(h, i + 1)
    ELSE EventsAfter(h, i + 1)

IsPrefix(p, q) == Len(p) <= Len(q) /\ \A k \in 1..Len(p) : p[k] = q[k]

\* C1: every well-formed frame that arrives on the connection of a live,
\* connected handle is eventually published into that handle's hub (unless
\* the handle goes away or the connection goes down first).
C1_EveryFrameForwarded ==
    \A h \in Handles : \A i \in 1..MaxFrames :
        (Live(h) /\ i <= Len(wire[h]) /\ wire[h][i] = "good")
            ~> (~Live(h) \/ InSeq(Event(h, i), hub[h]))

C4_TeardownClosesHub ==
    /\ [][\A s \in Subs :
            (/\ Attached(s)
             /\ hstate[shandle[s]] = "dropped"
             /\ (Recv(s) \/ Wake(s)))
                => (spc'[s] = "idle" /\ sres'[s] = <<"Closed">>)]_vars
    /\ [][\A h \in Handles :
            (hstate[h] = "ready" /\ hstate'[h] = "dropped")
                => (/\ tx'[h] = "dropped"
                    /\ ws'[h] = "Dropped"
                    /\ conn'[h] = "released")]_vars
    /\ \A s \in Subs :
        (Attached(s) /\ spc[s] = "waiting" /\ hstate[shandle[s]] = "dropped")
            ~> (spc[s] = "dropped" \/ sres[s] = <<"Closed">>)

\* C4 witness: a Subscription of a dropped handle was suspended in receive
\* and has been woken with Closed, the connection being released.
C4_Witness ==
    \E s \in Subs :
        /\ Attached(s)
        /\ hstate[shandle[s]] = "dropped"
        /\ conn[shandle[s]] = "released"
        /\ spc[s] = "idle"
        /\ sres[s] = <<"Closed">>

C6_MalformedIsNonFatal ==
    /\ [](\A h \in Handles : \A k \in 1..Len(hub[h]) :
            wire[h][hub[h][k][2]] = "good")
    /\ \A h \in Handles : \A i \in 1..MaxFrames : \A j \in 1..MaxFrames :
        (/\ Live(h)
         /\ i < j
         /\ j <= Len(wire[h])
         /\ wire[h][i] = "bad"
         /\ wire[h][j] = "good")
            ~> (~Live(h) \/ InSeq(Event(h, j), hub[h]))

\* What a Subscription's consumer can observe of it.
SubView(s) == <<shandle[s], spc[s], next[s], sres[s], received[s]>>

\* A step taken by the consumer of Subscription s.
StepOf(s) ==
    \/ \E h \in Handles : Subscribe(s, h)
    \/ Recv(s)
    \/ Wake(s)
    \/ DropSub(s)

\* C7: a step of Subscription A (attaching, receiving, suspending, being
\* dropped) changes nothing of another Subscription B, of any hub or of any
\* Sender; and a receive of B returns Lagged only when B itself is more
\* than Capacity events behind.
C7_SubscriberIsolation ==
    [][\A a \in Subs : \A b \in Subs \ {a} :
          /\ StepOf(a) => (SubView(b)' = SubView(b) /\ UNCHANGED <<hub, tx>>)
          /\ (StepOf(b) /\ sres'[b] # sres[b] /\ sres'[b][1] = "Lagged")
                => Len(hub[shandle[b]]) - next[b] > Capacity]_vars

\* C7 witness: A and B are on the same handle, A has been dropped, and B
\* is still attached, suspended in a receive.
C7_Witness ==
    \E a \in Subs : \E b \in Subs \ {a} :
        /\ Attached(a) /\ Attached(b)
        /\ shandle[a] = shandle[b]
        /\ spc[a] = "dropped"
        /\ spc[b] = "waiting"

\* C8: get, get_all_entries, set and delete, whether they succeed or fail,
\* leave the connection state, the hub and every Subscription unchanged.
C8_CrudLeavesEventPath ==
    [][(\E h \in Handles, ok \in BOOLEAN :
            get(h, ok) \/ get_all_entries(h, ok) \/ set(h, ok) \/ delete(h, ok))
          => UNCHANGED eventPath]_vars

\* C8 witness: a REST call has returned on a handle that has a Subscription
\* suspended in receive and frames on its connection.
C8_Witness ==
    /\ resp \in {"Ok", "Err"}
    /\ \E s \in Subs :
        /\ Attached(s)
        /\ spc[s] = "waiting"
        /\ Exposed(shandle[s])
        /\ Len(wire[shandle[s]]) > 0

\* C9: after the remote side closed the connection of a handle, the
\* handle's is_connected is no longer true.
C9_StateFollowsConnection ==
    \A h \in Handles :
        (hstate[h] = "ready" /\ conn[h] = "peerClosed") => ~is_connected[h]

\* C10: a Subscription receives only events of the hub of the handle it
\* was obtained from, and observes Closed only when that very handle was
\* dropped, whatever happens to the other handle.
C10_NoCrossDelivery ==
    \A s \in Subs : Attached(s) =>
        /\ \A k \in 1..Len(received[s]) : received[s][k][1] = shandle[s]
        /\ sres[s][1] = "Ok" => sres[s][2][1] = shandle[s]
        /\ sres[s] = <<"Closed">> => hstate[shandle[s]] = "dropped"

\* C10 witness: one handle was dropped and its Subscription observed
\* Closed, while a Subscription of the other, live handle is still
\* suspended in receive.
C10_Witness ==
    \E s \in Subs : \E r \in Subs \ {s} :
        /\ Attached(s) /\ Attached(r)
        /\ shandle[s] # shandle[r]
        /\ hstate[shandle[s]] = "dropped"
        /\ sres[s] = <<"Closed">>
        /\ hstate[shandle[r]] = "ready"
        /\ spc[r] = "waiting"

====
